---- MODULE Spec2Model ----
(***************************************************************************)
(* The relaxation-and-learning engine of the Hopfield network package:     *)
(* AbstractHopfieldNetwork (state, weights, setState, relax, compareState, *)
(* the two measurement routines and learnPatterns), the two energy         *)
(* functions and the Delta learning rule.  The update rules, the           *)
(* activation function and the Hebbian rule are modelled from their        *)
(* documented contract.                                                    *)
(*                                                                         *)
(* Vectors are sequences of integers of length N, matrices are sequences   *)
(* of rows.  All values the engine computes from bipolar patterns and      *)
(* integer weights are integers (0.5 * (p - r) is -1, 0 or 1), so float64  *)
(* arithmetic is exact here.                                               *)
(***************************************************************************)
EXTENDS Integers, Sequences, FiniteSets, TLC

\* ------------------------------------------------------------------ bounds
N == 3
MAX_STEPS == 3
MaxStepsArg == 2
MaxEpochs == 2


\* ------------------------------------------------------------- arithmetic
Idx == 1..N

Abs(x) == IF x < 0 THEN -x ELSE x

\* (weights . state)[i], summed over the units 1..j
RECURSIVE RowDot(_, _, _, _)
RowDot(W, s, i, j) == IF j = 0 THEN 0 ELSE W[i][j] * s[j] + RowDot(W, s, i, j - 1)

\* np.dot(weights, state)
Dot(W, s) == [i \in Idx |-> RowDot(W, s, i, N)]

\* The first n values of f as a tuple: the array a numpy expression returns,
\* every element computed once.
RECURSIVE Values(_, _)
Values(f, n) == IF n = 0 THEN <<>> ELSE Append(Values(f, n - 1), f[n])

Neg(s) == [i \in DOMAIN s |-> -1 * s[i]]

\* ------------------------------------------------------- energy functions
BipolarEnergyFunction(s, W) ==
    [i \in Idx |-> -1 * RowDot(W, s, i, N) * s[i]]

BinaryEnergyFunction(s, W) ==
    [i \in Idx |-> Abs(RowDot(W, s, i, N) - s[i])]

VARIABLES
    weights,          \* self.weights
    state,            \* self.state
    energyFunction,   \* "Bipolar" | "Binary"
    updateRule,       \* "Synchronous" | "AsynchronousList"
    updateIndex,      \* the update rule's own position in its sweep, 0..N-1
    learningRule,     \* [name, updateSteps, maxEpoches]
    selfConnections,  \* self.selfConnections
    pc,               \* where the running call stands: "idle" when none is running
    lastOp,           \* the operation the caller ran last
    exc,              \* what it raised: "none" or the exception's name
    returned,         \* what the call returned ("None" for None, "True" and "False" for a bool)
    entryState,       \* self.state when the last relax was entered
    entryIndex,       \* updateIndex when the last relax was entered
    relaxMax,         \* the step ceiling the last relax ran under
    steps,            \* update steps the last relax applied
    patterns,         \* learnPatterns: the batch
    mappings,         \* learnPatterns: [given, maps], testPatternMappings
    resultStates,     \* learnPatterns: the list of that name
    testAccuracies,   \* learnPatterns: the list of that name
    epoch,            \* learnPatterns: the loop variable of the epoch loop
    cursor,           \* learnPatterns: position in the running pattern loop
    learnedAllPatterns, \* learnPatterns: the flag of that name
    applied,          \* learning rule applications of the last learnPatterns
    epochStates,      \* states the prediction loop reached in this epoch
    ruleOut,          \* what the last learning rule application returned
    recovered,        \* RelaxationExceptions the last learnPatterns or measurement recovered
    checkRaised,      \* a relax of this epoch's convergence check raised
    called,           \* the constructor or measurement call recorded: [args, index],
                      \* its arguments and the update rule's position when it was made
    handed,           \* the arrays the caller passed in: [given, now, shared]
    firstRelax        \* the first relax call seen: [seen, state, index, maxSteps, out,
                      \* raised], and whether relax was called again since (again)

engine == <<weights, state, updateIndex>>
relaxObs == <<entryState, entryIndex, relaxMax, steps>>
learnLocals == <<patterns, mappings, resultStates, testAccuracies, epoch, cursor,
                 learnedAllPatterns, applied, epochStates, ruleOut, checkRaised>>
vars == <<weights, state, energyFunction, updateRule, updateIndex, learningRule,
          selfConnections, lastOp, exc, returned, entryState, entryIndex, relaxMax, steps,
          pc, patterns, mappings, resultStates, testAccuracies, epoch, cursor,
          learnedAllPatterns, applied, epochStates, ruleOut, recovered, checkRaised,
          called, handed, firstRelax>>

\* What the caller-side scenarios record; the engine never reads them.
probes == <<called, handed, firstRelax>>

config == <<energyFunction, updateRule, learningRule, selfConnections>>

\* AbstractHopfieldNetwork.unitEnergies, at a given state and weights
unitEnergies(s, W) ==
    IF energyFunction = "Bipolar" THEN BipolarEnergyFunction(s, W)
                                  ELSE BinaryEnergyFunction(s, W)

AnyNonPositive(e) == \E i \in Idx : e[i] <= 0
AnyPositive(e) == \E i \in Idx : e[i] > 0

\* ------------------------------------------------------------ update rules
\* ActivationFunction of a bipolar network: the positive value when the
\* signal is >= 0, the negative value otherwise.
BipolarHeaviside(x) == IF x >= 0 THEN 1 ELSE -1

\* Synchronous: all N units recomputed from the same source state.
Synchronous(s, W) == Values([i \in Idx |-> BipolarHeaviside(RowDot(W, s, i, N))], N)

\* AsynchronousList: one unit per call, in index order 0..N-1, wrapping.
\* k is the rule's position (0-based).
AsynchronousList(s, W, k) == [s EXCEPT ![k + 1] = BipolarHeaviside(RowDot(W, s, k + 1, N))]

\* AbstractHopfieldNetwork._updateStep: one call of the configured update
\* rule, [state, index] after it.
updateStep(s, k, W) ==
    IF updateRule = "Synchronous"
    THEN [state |-> Synchronous(s, W), index |-> k]
    ELSE [state |-> AsynchronousList(s, W, k), index |-> (k + 1) % N]

\* k applications of _updateStep
RECURSIVE IterSteps(_, _, _, _)
IterSteps(s, k, W, n) ==
    IF n = 0 THEN [state |-> s, index |-> k]
    ELSE LET u == updateStep(s, k, W) IN IterSteps(u.state, u.index, W, n - 1)

\* ------------------------------------------------------------------- relax
\* The loop condition of relax: np.any(self.unitEnergies() <= 0)
relaxContinues(s, W) == AnyNonPositive(unitEnergies(s, W))

\* The ceiling test of relax: current_step > maxSteps
ceilingReached(current_step, maxSteps) == current_step > maxSteps

\* The while loop of relax from (s, k) with current_step steps already done.
RECURSIVE relaxLoop(_, _, _, _, _)
relaxLoop(s, k, W, current_step, maxSteps) ==
    IF relaxContinues(s, W)
    THEN IF ceilingReached(current_step, maxSteps)
         THEN [state |-> s, index |-> k, steps |-> current_step, raised |-> TRUE]
         ELSE LET u == updateStep(s, k, W)
              IN  relaxLoop(u.state, u.index, W, current_step + 1, maxSteps)
    ELSE [state |-> s, index |-> k, steps |-> current_step, raised |-> FALSE]

\* relax that restores the entry state when it gives up
relaxRollsBack(s, k, W, maxSteps) ==
    LET r == relaxLoop(s, k, W, 0, maxSteps)
    IN  IF r.raised THEN [r EXCEPT !.state = s] ELSE r

\* relax whose current_step starts at 0 only in a network's first call
relaxKeepsCount(s, k, W, maxSteps) ==
    relaxLoop(s, k, W, IF lastOp = "init" THEN 0 ELSE 1, maxSteps)

\* AbstractHopfieldNetwork.relax(maxSteps), maxSteps already defaulted
relax(s, k, W, maxSteps) == relaxLoop(s, k, W, 0, maxSteps)

\* ---------------------------------------------------------------- setState
\* An ndarray handed in by the caller: its dtype and its (1-D) contents.
Vecs == [Idx -> {-1, 1}]
Ones(n) == [i \in 1..n |-> 1]
Array(d) == [dtype |-> "float64", data |-> d]
WrongArrays == {[dtype |-> "float64", data |-> Ones(N - 1)],
                [dtype |-> "float64", data |-> Ones(N + 1)],
                [dtype |-> "int64", data |-> Neg(Ones(N))]}
Arrays == {Array(v) : v \in Vecs} \cup WrongArrays

shapeOk(a) == Len(a.data) = N
dtypeOk(a) == a.dtype = "float64"

\* setState that stores the array before it validates it
setStateStoresFirst(cur, a) ==
    IF shapeOk(a) /\ dtypeOk(a) THEN [state |-> a.data, exc |-> "none"]
    ELSE [state |-> a.data, exc |-> "ValueError"]

\* GeneralHopfieldNetwork.setState -> AbstractHopfieldNetwork.setState:
\* the state after the call and what it raised.
setState(cur, a) ==
    IF ~shapeOk(a) THEN [state |-> cur, exc |-> "ValueError"]
    ELSE IF ~dtypeOk(a) THEN [state |-> cur, exc |-> "ValueError"]
    ELSE [state |-> a.data, exc |-> "none"]

\* compareState without the comparison against -1*state
compareExact(s, other) == s = other

\* AbstractHopfieldNetwork.compareState
compareState(s, other) == s = other \/ Neg(s) = other

\* ------------------------------------------------------------ measurement
\* The class each except clause names.  relax raises "RelaxationException",
\* the class of AbstractHopfieldNetwork.py; GeneralHopfieldNetwork.py and
\* BipolarHopfieldNetwork.py define classes of their own under the same name,
\* which an except clause naming them would not match.
OtherRelaxationException == "GeneralHopfieldNetwork.RelaxationException"
exceptInStability == "RelaxationException"
exceptInAccuracy == "RelaxationException"
exceptInPredict == "RelaxationException"
exceptInCheck == "RelaxationException"

Pair(x, y) == [input |-> Array(x), expected |-> y]
\* a hit only when the state equals the expected output, sign included
HitExact(s, expected) == IF s = expected THEN 1 ELSE 0
Hit(s, expected) == IF compareState(s, expected) THEN 1 ELSE 0

\* The for loop of measureTestAccuracy from mapping i on, and its return.
\* caught counts the relaxations that raised and were recovered.
RECURSIVE accuracyLoop(_, _, _, _, _, _, _)
accuracyLoop(s, k, W, maps, i, accuracy, caught) ==
    IF i > Len(maps)
    THEN [state |-> s, index |-> k, caught |-> caught, done |-> i - 1,
          exc |-> IF Len(maps) = 0 THEN "ZeroDivisionError" ELSE "none",
          value |-> <<accuracy, Len(maps)>>]
    ELSE LET st == setState(s, maps[i].input)
             r == relax(st.state, k, W, MAX_STEPS)
         IN  IF st.exc # "none"
             THEN [state |-> st.state, index |-> k, caught |-> caught, done |-> i - 1,
                   exc |-> st.exc, value |-> <<>>]
             ELSE IF r.raised
             THEN IF exceptInAccuracy = "RelaxationException"
                  THEN accuracyLoop(r.state, r.index, W, maps, i + 1, accuracy, caught + 1)
                  ELSE [state |-> r.state, index |-> r.index, caught |-> caught,
                        done |-> i - 1, exc |-> "RelaxationException", value |-> <<>>]
             ELSE accuracyLoop(r.state, r.index, W, maps, i + 1,
                               accuracy + Hit(r.state, maps[i].expected), caught)

\* measureTestAccuracy that answers 0 for an empty list of mappings
measureOrZero(s, k, W, maps) ==
    IF Len(maps) = 0
    THEN [state |-> s, index |-> k, caught |-> 0, done |-> 0, exc |-> "none",
          value |-> <<0, 1>>]
    ELSE accuracyLoop(s, k, W, maps, 1, 0, 0)

\* AbstractHopfieldNetwork.measureTestAccuracy
measureTestAccuracy(s, k, W, maps) == accuracyLoop(s, k, W, maps, 1, 0, 0)

\* The inner for loop of measureTaskPatternStability over one task, and the
\* division that follows it.
RECURSIVE taskLoop(_, _, _, _, _, _, _)
taskLoop(s, k, W, task, i, taskAccuracy, caught) ==
    IF i > Len(task)
    THEN [state |-> s, index |-> k, caught |-> caught,
          exc |-> IF Len(task) = 0 THEN "ZeroDivisionError" ELSE "none",
          value |-> <<taskAccuracy, Len(task)>>]
    ELSE LET st == setState(s, task[i])
             r == relax(st.state, k, W, learningRule.updateSteps)
         IN  IF st.exc # "none"
             THEN [state |-> st.state, index |-> k, caught |-> caught,
                   exc |-> st.exc, value |-> <<>>]
             ELSE IF r.raised
             THEN IF exceptInStability = "RelaxationException"
                  THEN taskLoop(r.state, r.index, W, task, i + 1, taskAccuracy, caught + 1)
                  ELSE [state |-> r.state, index |-> r.index, caught |-> caught,
                        exc |-> "RelaxationException", value |-> <<>>]
             ELSE taskLoop(r.state, r.index, W, task, i + 1,
                           taskAccuracy + Hit(r.state, task[i].data), caught)

\* The outer for loop of measureTaskPatternStability from task t on.
RECURSIVE stabilityLoop(_, _, _, _, _, _, _)
stabilityLoop(s, k, W, tasks, t, taskAccuracies, caught) ==
    IF t > Len(tasks)
    THEN [state |-> s, index |-> k, caught |-> caught, exc |-> "none",
          value |-> taskAccuracies]
    ELSE LET r == taskLoop(s, k, W, tasks[t], 1, 0, caught)
         IN  IF r.exc # "none"
             THEN [state |-> r.state, index |-> r.index, caught |-> r.caught,
                   exc |-> r.exc, value |-> <<>>]
             ELSE stabilityLoop(r.state, r.index, W, tasks, t + 1,
                                Append(taskAccuracies, r.value), r.caught)

\* AbstractHopfieldNetwork.measureTaskPatternStability
measureTaskPatternStability(s, k, W, tasks) == stabilityLoop(s, k, W, tasks, 1, <<>>, 0)

\* ---------------------------------------------------------- learning rules
\* np.outer(a, b)
Outer(a, b) == [i \in Idx |-> [j \in Idx |-> a[i] * b[j]]]
MatAdd(A, B) == [i \in Idx |-> [j \in Idx |-> A[i][j] + B[i][j]]]
Zeros == [i \in Idx |-> [j \in Idx |-> 0]]

\* The error's outer product without the factor 0.5
ErrorOuter(pattern, resultState) ==
    [i \in Idx |-> [j \in Idx |-> (pattern[i] - resultState[i]) * pattern[j]]]

\* 0.5 * np.outer(pattern - resultState, pattern): pattern - resultState is
\* -2, 0 or 2 in every unit, so the halves are whole.
HalfErrorOuter(pattern, resultState) ==
    [i \in Idx |-> [j \in Idx |-> ((pattern[i] - resultState[i]) * pattern[j]) \div 2]]

\* The for loop of Delta.__call__ : weightChanges after patterns i..len-1
RECURSIVE deltaChanges(_, _, _, _)
deltaChanges(pats, results, i, weightChanges) ==
    IF i > Len(pats) THEN weightChanges
    ELSE deltaChanges(pats, results, i + 1,
                      MatAdd(weightChanges, HalfErrorOuter(pats[i].data, results[i])))

\* Delta.__call__
DeltaRule(pats, results, W) ==
    LET sum == MatAdd(W, deltaChanges(pats, results, 1, Zeros))
    IN  Values([i \in Idx |-> Values(sum[i], N)], N)

\* Hebbian: weights + sum of outer(pattern, pattern); resultStates unused
RECURSIVE hebbianChanges(_, _, _)
hebbianChanges(pats, i, weightChanges) ==
    IF i > Len(pats) THEN weightChanges
    ELSE hebbianChanges(pats, i + 1,
                        MatAdd(weightChanges, Outer(pats[i].data, pats[i].data)))

HebbianRule(pats, results, W) ==
    LET sum == MatAdd(W, hebbianChanges(pats, 1, Zeros))
    IN  Values([i \in Idx |-> Values(sum[i], N)], N)

\* self.learningRule(patterns, resultStates, self.weights)
applyLearningRule(pats, results, W) ==
    IF learningRule.name = "Delta" THEN DeltaRule(pats, results, W)
                                   ELSE HebbianRule(pats, results, W)

\* np.fill_diagonal(weights, 0)
fillDiagonal(W) == [i \in Idx |-> [j \in Idx |-> IF i = j THEN 0 ELSE W[i][j]]]

\* ------------------------------------------------------------ construction
\* Weight matrices handed to the constructor: u above the diagonal, l below
\* it, d on it (symmetric and asymmetric, with and without self-connections).
\* Ramp(0, 0, 0) is the constructor's default, np.zeros([N, N]).
Ramp(t) == [i \in Idx |-> [j \in Idx |-> IF i = j THEN t[3] ELSE IF i < j THEN t[1] ELSE t[2]]]
WeightShapes == {<<0, 0, 0>>, <<1, 1, 0>>, <<-1, -1, 0>>, <<1, -1, 0>>,
                 <<1, 1, 1>>, <<-1, -1, -1>>, <<-1, 1, 1>>, <<0, 0, -1>>}
InitWeights == {Ramp(t) : t \in WeightShapes}

\* Delta.__init__ : updateSteps = 1.  maxEpoches is the attribute the epoch
\* loop reads; Delta sets it to 100, the model lets it be 0..MaxEpochs.
Delta(maxEpoches) == [name |-> "Delta", updateSteps |-> 1, maxEpoches |-> maxEpoches]
\* Hebbian: updateSteps = 0
Hebbian(maxEpoches) == [name |-> "Hebbian", updateSteps |-> 0, maxEpoches |-> maxEpoches]
LearningRules == {Delta(m) : m \in 0..MaxEpochs} \cup {Hebbian(m) : m \in 0..MaxEpochs}

\* AbstractHopfieldNetwork.__init__
Constructed ==
    /\ weights \in InitWeights
    /\ state = Ones(N)
    /\ energyFunction \in {"Bipolar", "Binary"}
    /\ updateRule \in {"Synchronous", "AsynchronousList"}
    /\ updateIndex = 0
    /\ learningRule \in LearningRules
    /\ lastOp = "init"
    /\ exc = "none"
    /\ returned = "None"
    /\ entryState = Ones(N)
    /\ entryIndex = 0
    /\ relaxMax = 0
    /\ steps = 0
    /\ pc = "idle"
    /\ patterns = <<>>
    /\ mappings = [given |-> FALSE, maps |-> <<>>]
    /\ resultStates = <<>>
    /\ testAccuracies = <<>>
    /\ epoch = 0
    /\ cursor = 0
    /\ learnedAllPatterns = FALSE
    /\ applied = 0
    /\ epochStates = <<>>
    /\ ruleOut = Zeros
    /\ recovered = 0
    /\ checkRaised = FALSE
    /\ called = [args |-> <<>>, index |-> 0]
    /\ handed = [given |-> <<>>, now |-> <<>>, shared |-> 0]
    /\ firstRelax = [seen |-> FALSE, state |-> Ones(N), index |-> 0, maxSteps |-> 0,
                     out |-> Ones(N), raised |-> FALSE, again |-> FALSE]

\* The engine the caller sets, relaxes and compares: nothing it does there
\* reads selfConnections or maxEpoches.
Init ==
    /\ Constructed
    /\ selfConnections = FALSE
    /\ learningRule.maxEpoches = MaxEpochs

\* ----------------------------------------------------- the caller's calls
\* A call that is no relax forgets what the last relax was seen to do.
NoRelaxObs ==
    /\ entryState' = state'
    /\ entryIndex' = updateIndex'
    /\ relaxMax' = 0
    /\ steps' = 0

SetState(a) ==
    LET r == setState(state, a)
    IN  /\ pc = "idle"
        /\ state' = r.state
        /\ exc' = r.exc
        /\ lastOp' = "setState"
        /\ returned' = "None"
        /\ UNCHANGED <<weights, config, updateIndex, pc, learnLocals, recovered>>
        /\ NoRelaxObs

\* relax that also clears the self-connections of the weights it runs on
RelaxWithZeroedDiagonal(maxSteps) ==
    LET r == relax(state, updateIndex, weights, maxSteps)
    IN  /\ pc = "idle"
        /\ state' = r.state
        /\ updateIndex' = r.index
        /\ exc' = IF r.raised THEN "RelaxationException" ELSE "none"
        /\ returned' = IF r.raised THEN "None" ELSE r.state
        /\ lastOp' = "relax"
        /\ entryState' = state
        /\ entryIndex' = updateIndex
        /\ relaxMax' = maxSteps
        /\ steps' = r.steps
        /\ weights' = fillDiagonal(weights)
        /\ UNCHANGED <<config, pc, learnLocals, recovered>>

RelaxWith(maxSteps) ==
    LET r == relax(state, updateIndex, weights, maxSteps)
    IN  /\ pc = "idle"
        /\ state' = r.state
        /\ updateIndex' = r.index
        /\ exc' = IF r.raised THEN "RelaxationException" ELSE "none"
        /\ returned' = IF r.raised THEN "None" ELSE r.state
        /\ lastOp' = "relax"
        /\ entryState' = state
        /\ entryIndex' = updateIndex
        /\ relaxMax' = maxSteps
        /\ steps' = r.steps
        /\ UNCHANGED <<weights, config, pc, learnLocals, recovered>>

\* relax() : maxSteps is None, so the update rule's MAX_STEPS
RelaxDefault == RelaxWith(MAX_STEPS)

\* relax(maxSteps)
RelaxBounded == \E m \in 0..MaxStepsArg : RelaxWith(m)

CompareState ==
    \E v \in Vecs :
        /\ pc = "idle"
        /\ returned' = IF compareState(state, v) THEN "True" ELSE "False"
        /\ lastOp' = "compareState"
        /\ exc' = "none"
        /\ UNCHANGED <<weights, state, config, updateIndex, pc, learnLocals, recovered>>
        /\ NoRelaxObs

MeasureTestAccuracy(maps) ==
    LET m == measureTestAccuracy(state, updateIndex, weights, maps)
    IN  /\ pc = "idle"
        /\ state' = m.state
        /\ updateIndex' = m.index
        /\ exc' = m.exc
        /\ returned' = IF m.exc = "none" THEN m.value ELSE "None"
        /\ lastOp' = "measureTestAccuracy"
        /\ recovered' = m.caught
        /\ UNCHANGED <<weights, config, pc, learnLocals>>
        /\ NoRelaxObs

MeasureTaskPatternStability(tasks) ==
    LET m == measureTaskPatternStability(state, updateIndex, weights, tasks)
    IN  /\ pc = "idle"
        /\ state' = m.state
        /\ updateIndex' = m.index
        /\ exc' = m.exc
        /\ returned' = IF m.exc = "none" THEN m.value ELSE "None"
        /\ lastOp' = "measureTaskPatternStability"
        /\ recovered' = m.caught
        /\ UNCHANGED <<weights, config, pc, learnLocals>>
        /\ NoRelaxObs

Next ==
    \/ (\E a \in Arrays : SetState(a)) /\ UNCHANGED probes
    \/ RelaxDefault /\ UNCHANGED probes
    \/ RelaxBounded /\ UNCHANGED probes
    \/ CompareState /\ UNCHANGED probes

Spec == Init /\ [][Next]_vars

\* ----------------------------------------------------------- learnPatterns
\* learnPatterns that looks at the first pattern of the batch only
firstPatternValid(pats) == Len(pats) = 0 \/ (shapeOk(pats[1]) /\ dtypeOk(pats[1]))

\* Lines 285-287: every pattern has shape (N,) and dtype float64
patternsValid(pats) == \A i \in 1..Len(pats) : shapeOk(pats[i]) /\ dtypeOk(pats[i])

\* learnPatterns with the flag of line 318 starting out False
startsUnlearned == FALSE

\* Line 318: learnedAllPatterns = True
learnedAllPatternsStart == TRUE

\* afterLearning without the fill_diagonal
keepsDiagonal(W) == W

\* Line 309 under its condition of line 308
afterLearning(W) == IF ~selfConnections THEN fillDiagonal(W) ELSE W

\* Where an epoch starts: the prediction loop when the rule wants predictions.
EpochStartPc(pats) ==
    IF learningRule.updateSteps > 0 /\ Len(pats) > 0 THEN "predict" ELSE "learn"

\* What learnPatterns returns (lines 334-335)
LearnReturn ==
    /\ pc' = "idle"
    /\ exc' = "none"
    /\ returned' = IF mappings.given THEN testAccuracies ELSE "None"

\* An exception leaves learnPatterns
LearnRaise(e) ==
    /\ pc' = "idle"
    /\ exc' = e
    /\ returned' = "None"

\* learnPatterns(patterns, testPatternMappings), lines 281-290: the locals,
\* the validation of the batch, and entry into the epoch loop.
LearnPatterns(pats, given, maps) ==
    /\ pc = "idle"
    /\ lastOp' = "learnPatterns"
    /\ patterns' = pats
    /\ mappings' = [given |-> given, maps |-> maps]
    /\ resultStates' = <<>>
    /\ testAccuracies' = <<>>
    /\ epoch' = 0
    /\ cursor' = 1
    /\ learnedAllPatterns' = FALSE
    /\ applied' = 0
    /\ epochStates' = <<>>
    /\ recovered' = 0
    /\ checkRaised' = FALSE
    /\ IF ~patternsValid(pats) THEN LearnRaise("ValueError")
       ELSE IF learningRule.maxEpoches = 0
            THEN /\ pc' = "idle"
                 /\ exc' = "none"
                 /\ returned' = IF given THEN <<>> ELSE "None"
            ELSE /\ pc' = EpochStartPc(pats)
                 /\ exc' = "none"
                 /\ returned' = "None"
    /\ UNCHANGED <<engine, config, relaxObs, ruleOut>>

\* One pass of the prediction loop, lines 295-302
LPPredict ==
    LET st == setState(state, patterns[cursor])
        r == relax(st.state, updateIndex, weights, learningRule.updateSteps)
        escapes == r.raised /\ exceptInPredict # "RelaxationException"
    IN  /\ pc = "predict"
        /\ state' = r.state
        /\ updateIndex' = r.index
        /\ entryState' = st.state
        /\ entryIndex' = updateIndex
        /\ relaxMax' = learningRule.updateSteps
        /\ steps' = r.steps
        /\ IF escapes
           THEN /\ LearnRaise("RelaxationException")
                /\ UNCHANGED <<resultStates, epochStates, cursor, recovered>>
           ELSE /\ resultStates' = Append(resultStates, r.state)
                /\ epochStates' = Append(epochStates, r.state)
                /\ recovered' = recovered + (IF r.raised THEN 1 ELSE 0)
                /\ cursor' = IF cursor = Len(patterns) THEN 1 ELSE cursor + 1
                /\ pc' = IF cursor = Len(patterns) THEN "learn" ELSE "predict"
                /\ UNCHANGED <<exc, returned>>
        /\ UNCHANGED <<weights, config, lastOp, patterns, mappings, testAccuracies,
                       epoch, learnedAllPatterns, applied, ruleOut, checkRaised>>

\* Lines 305-309: the learning rule, then the diagonal
LPLearn ==
    LET out == applyLearningRule(patterns, resultStates, weights)
    IN  /\ pc = "learn"
        /\ ruleOut' = out
        /\ weights' = afterLearning(out)
        /\ applied' = applied + 1
        /\ learnedAllPatterns' = learnedAllPatternsStart
        /\ checkRaised' = FALSE
        /\ cursor' = 1
        /\ pc' = IF mappings.given THEN "measure"
                 ELSE IF Len(patterns) > 0 THEN "check" ELSE "epochEnd"
        /\ UNCHANGED <<state, updateIndex, config, lastOp, exc, returned, relaxObs, patterns,
                       mappings, resultStates, testAccuracies, epoch, epochStates,
                       recovered>>

\* learnPatterns that goes on to the convergence check without measuring
LPSkipMeasure ==
    /\ pc = "measure"
    /\ pc' = IF Len(patterns) > 0 THEN "check" ELSE "epochEnd"
    /\ UNCHANGED <<engine, config, lastOp, exc, returned, relaxObs, learnLocals, recovered>>

\* Lines 312-314: the epoch's entry of the accuracy log
LPMeasure ==
    LET m == measureTestAccuracy(state, updateIndex, weights, mappings.maps)
    IN  /\ pc = "measure"
        /\ state' = m.state
        /\ updateIndex' = m.index
        /\ recovered' = recovered + m.caught
        /\ IF m.exc # "none"
           THEN /\ LearnRaise(m.exc)
                /\ UNCHANGED testAccuracies
           ELSE /\ testAccuracies' = Append(testAccuracies, m.value)
                /\ pc' = IF Len(patterns) > 0 THEN "check" ELSE "epochEnd"
                /\ UNCHANGED <<exc, returned>>
        /\ UNCHANGED <<weights, config, lastOp, patterns, mappings, resultStates, epoch,
                       cursor, learnedAllPatterns, applied, epochStates, ruleOut,
                       checkRaised>>
        /\ NoRelaxObs

\* One pass of the convergence loop, lines 319-328
LPCheck ==
    LET st == setState(state, patterns[cursor])
        r == relax(st.state, updateIndex, weights, MAX_STEPS)
        skip == learningRule.updateSteps = 0
        escapes == ~skip /\ r.raised /\ exceptInCheck # "RelaxationException"
        differs == ~skip /\ ~r.raised /\ ~compareState(r.state, patterns[cursor].data)
    IN  /\ pc = "check"
        /\ IF skip
           THEN UNCHANGED <<state, updateIndex, relaxObs, recovered, checkRaised>>
           ELSE /\ state' = r.state
                /\ updateIndex' = r.index
                /\ entryState' = st.state
                /\ entryIndex' = updateIndex
                /\ relaxMax' = MAX_STEPS
                /\ steps' = r.steps
                /\ recovered' = recovered + (IF r.raised /\ ~escapes THEN 1 ELSE 0)
                /\ checkRaised' = (checkRaised \/ r.raised)
        /\ IF escapes
           THEN /\ LearnRaise("RelaxationException")
                /\ UNCHANGED <<cursor, learnedAllPatterns>>
           ELSE /\ learnedAllPatterns' = (learnedAllPatterns /\ ~differs)
                /\ cursor' = IF differs \/ cursor = Len(patterns) THEN 1 ELSE cursor + 1
                /\ pc' = IF differs \/ cursor = Len(patterns) THEN "epochEnd" ELSE "check"
                /\ UNCHANGED <<exc, returned>>
        /\ UNCHANGED <<weights, config, lastOp, patterns, mappings, resultStates,
                       testAccuracies, epoch, applied, epochStates, ruleOut>>

\* Lines 330-331 and the for statement of line 290: leave the loop, or go
\* round it again.  resultStates is not touched between epochs.
LPEpochEnd ==
    /\ pc = "epochEnd"
    /\ IF learnedAllPatterns \/ epoch + 1 >= learningRule.maxEpoches
       THEN /\ LearnReturn
            /\ UNCHANGED <<epoch, epochStates>>
       ELSE /\ epoch' = epoch + 1
            /\ epochStates' = <<>>
            /\ pc' = EpochStartPc(patterns)
            /\ UNCHANGED <<exc, returned>>
    /\ UNCHANGED <<engine, config, lastOp, relaxObs, patterns, mappings, resultStates,
                   testAccuracies, cursor, learnedAllPatterns, applied, ruleOut,
                   recovered, checkRaised>>

\* ------------------------------------------------ training, then recalling
FlipAt(v, i) == [v EXCEPT ![i] = -1 * v[i]]
Alt == [i \in Idx |-> IF i % 2 = 1 THEN 1 ELSE -1]
Half == [i \in Idx |-> IF 2 * i <= N THEN 1 ELSE -1]
Probes == {Ones(N), Half, Alt}

\* The batches handed to learnPatterns: every single pattern, and the pairs
\* of distinct probes.
Batches ==
    {<<Array(x)>> : x \in Vecs}
        \cup {<<Array(q[1]), Array(q[2])>> : q \in {q \in Probes \X Probes : q[1] # q[2]}}

\* The test mappings that go with a batch: each pattern onto itself, and the
\* first pattern with its first unit flipped onto the first pattern.
SelfMappings(pats) == [i \in 1..Len(pats) |-> Pair(pats[i].data, pats[i].data)]
NoisyMappings(pats) == <<Pair(FlipAt(pats[1].data, 1), pats[1].data)>> \o SelfMappings(pats)

Train ==
    \E pats \in Batches :
        \/ LearnPatterns(pats, FALSE, <<>>)
        \/ LearnPatterns(pats, TRUE, SelfMappings(pats))
        \/ LearnPatterns(pats, TRUE, NoisyMappings(pats))

Trained == pc = "idle" /\ lastOp # "init"

\* After training, the caller probes the network with the trained patterns.
Recall ==
    /\ Trained
    /\ lastOp \in {"learnPatterns", "relax"}
    /\ \E i \in 1..Len(patterns) : SetState(patterns[i])

RecallRelax == Trained /\ lastOp = "setState" /\ RelaxDefault

RecallAccuracy ==
    /\ Trained
    /\ lastOp = "learnPatterns"
    /\ MeasureTestAccuracy(NoisyMappings(patterns))

RecallStability ==
    /\ Trained
    /\ lastOp = "learnPatterns"
    /\ MeasureTaskPatternStability(<<patterns, <<patterns[1]>> >>)

InitLearn == Constructed /\ selfConnections \in BOOLEAN

NextLearn ==
    \/ lastOp = "init" /\ Train /\ UNCHANGED probes
    \/ LPPredict /\ UNCHANGED probes
    \/ LPLearn /\ UNCHANGED probes
    \/ LPMeasure /\ UNCHANGED probes
    \/ LPCheck /\ UNCHANGED probes
    \/ LPEpochEnd /\ UNCHANGED probes
    \/ Recall /\ UNCHANGED probes
    \/ RecallRelax /\ UNCHANGED probes
    \/ RecallAccuracy /\ UNCHANGED probes
    \/ RecallStability /\ UNCHANGED probes

SpecLearn == InitLearn /\ [][NextLearn]_vars

\* ------------------------------------------------- measuring a network
\* The mappings handed to measureTestAccuracy: one pair from any input onto
\* itself, its negation or a neighbour, and two pairs of probes.
MappingLists ==
    {<<Pair(x, y)>> : x \in Vecs, y \in Probes}
        \cup {<<Pair(q[1], q[1]), Pair(q[2], q[1])>> : q \in Probes \X Probes}

\* The task lists handed to measureTaskPatternStability: one task of one
\* pattern, one task of two, two tasks of one.
TaskLists ==
    {<< <<Array(x)>> >> : x \in Vecs}
        \cup {<< <<Array(q[1]), Array(q[2])>> >> : q \in Probes \X Probes}
        \cup {<< <<Array(q[1])>>, <<Array(q[2])>> >> : q \in Probes \X Probes}

NotMeasured == called.args = <<>>

\* The caller sets, relaxes or compares the network once, then measures it.
Fresh == NotMeasured /\ lastOp = "init"

TestAccuracy ==
    \E maps \in MappingLists :
        /\ NotMeasured
        /\ MeasureTestAccuracy(maps)
        /\ called' = [args |-> maps, index |-> updateIndex]
        /\ UNCHANGED <<handed, firstRelax>>

TaskStability ==
    \E tasks \in TaskLists :
        /\ NotMeasured
        /\ MeasureTaskPatternStability(tasks)
        /\ called' = [args |-> tasks, index |-> updateIndex]
        /\ UNCHANGED <<handed, firstRelax>>

NextMeasure ==
    \/ Fresh /\ (\E a \in Arrays : SetState(a)) /\ UNCHANGED probes
    \/ Fresh /\ RelaxDefault /\ UNCHANGED probes
    \/ Fresh /\ RelaxBounded /\ UNCHANGED probes
    \/ Fresh /\ CompareState /\ UNCHANGED probes
    \/ TestAccuracy
    \/ TaskStability

SpecMeasure == Init /\ [][NextMeasure]_vars

\* ------------------------------------------------- the caller's arrays
\* The update rule's position before the i-th of a run of relaxations, each
\* started by setState(inputs[i]) and run under maxSteps, the first at k.
RECURSIVE positionBefore(_, _, _, _, _)
positionBefore(k, W, inputs, maxSteps, i) ==
    IF i = 1 THEN k
    ELSE relax(inputs[i - 1].data, positionBefore(k, W, inputs, maxSteps, i - 1),
               W, maxSteps).index

\* What the i-th of those relaxations does.
recallOf(k, W, inputs, maxSteps, i) ==
    relax(inputs[i].data, positionBefore(k, W, inputs, maxSteps, i), W, maxSteps)

\* The patterns of a task list, in the order the routine visits them.
RECURSIVE Flatten(_)
Flatten(tasks) == IF tasks = <<>> THEN <<>> ELSE Head(tasks) \o Flatten(Tail(tasks))


\* setState that hands the caller's own array to AbstractHopfieldNetwork
storedAsGiven == FALSE

\* GeneralHopfieldNetwork.setState and BipolarHopfieldNetwork.setState:
\* super().setState(state.copy())
copiedOnSet == TRUE

\* handed lists the arrays the caller passed in: their contents when passed
\* (given), their contents now (now), and which of them self.state is bound
\* to (shared, 0 for none of them).
\* setState binds self.state to the j-th array, or to a copy of it.
held(h, j) == [h EXCEPT !.shared = IF copiedOnSet THEN 0 ELSE j]

\* self.state = self._updateStep(): a rule that writes its argument leaves
\* the new state in the array self.state was bound to, a rule that builds a
\* new array rebinds self.state.
written(h, s, stepped, inPlace) ==
    IF h.shared = 0 \/ ~stepped THEN h
    ELSE IF inPlace THEN [h EXCEPT !.now[h.shared] = s]
    ELSE [h EXCEPT !.shared = 0]

\* A run of setState(inputs[i]); relax(maxSteps) over arrays the caller
\* passed after those it had already handed in.
RECURSIVE writtenBy(_, _, _, _, _, _, _)
writtenBy(h, k, W, inputs, maxSteps, inPlace, i) ==
    IF i = 0 THEN h
    ELSE LET r == recallOf(k, W, inputs, maxSteps, i)
             before == writtenBy(h, k, W, inputs, maxSteps, inPlace, i - 1)
         IN  written(held(before, Len(h.given) - Len(inputs) + i), r.state,
                     r.steps >= 1, inPlace)

Datas(arrays) == [i \in 1..Len(arrays) |-> arrays[i].data]
Passed(h, arrays) == [given |-> h.given \o Datas(arrays), now |-> h.now \o Datas(arrays),
                      shared |-> h.shared]
Handed == handed.given # <<>>

\* The caller has just passed one of the probe vectors to setState.
HandedProbe == Handed /\ lastOp = "setState" /\ handed.given[1] \in Probes

\* The caller passes v to setState.
HandOver ==
    \E a \in Arrays :
        /\ lastOp \in {"init", "setState"}
        /\ SetState(a)
        /\ handed' = IF setState(state, a).exc = "none"
                     THEN held([given |-> <<a.data>>, now |-> <<a.data>>, shared |-> 0], 1)
                     ELSE handed
        /\ UNCHANGED <<called, firstRelax>>

AliasRelax ==
    \E m \in 0..MAX_STEPS, inPlace \in BOOLEAN :
        /\ Handed
        /\ lastOp \in {"setState", "relax"}
        /\ RelaxWith(m)
        /\ handed' = written(handed, state', steps' >= 1, inPlace)
        /\ UNCHANGED <<called, firstRelax>>

AliasCompare ==
    /\ Handed
    /\ lastOp \in {"setState", "relax"}
    /\ CompareState
    /\ UNCHANGED probes

AliasAccuracy ==
    \E maps \in MappingLists, inPlace \in BOOLEAN :
        LET inputs == [i \in 1..Len(maps) |-> maps[i].input]
        IN  /\ HandedProbe
            /\ MeasureTestAccuracy(maps)
            /\ handed' = writtenBy(Passed(handed, inputs), updateIndex, weights, inputs,
                                   MAX_STEPS, inPlace, Len(inputs))
            /\ UNCHANGED <<called, firstRelax>>

AliasStability ==
    \E tasks \in TaskLists, inPlace \in BOOLEAN :
        LET inputs == Flatten(tasks)
        IN  /\ HandedProbe
            /\ MeasureTaskPatternStability(tasks)
            /\ handed' = writtenBy(Passed(handed, inputs), updateIndex, weights, inputs,
                                   learningRule.updateSteps, inPlace, Len(inputs))
            /\ UNCHANGED <<called, firstRelax>>

\* learnPatterns(patterns) after setState(v)
AliasTrain ==
    /\ HandedProbe
    /\ \E pats \in Batches : LearnPatterns(pats, FALSE, <<>>)
    /\ handed' = IF exc' = "none" THEN Passed(handed, patterns') ELSE handed
    /\ UNCHANGED <<called, firstRelax>>

\* setState(pattern); relax(...) inside learnPatterns
AliasPredict ==
    \E inPlace \in BOOLEAN :
        /\ LPPredict
        /\ handed' = written(held(handed, Len(handed.given) - Len(patterns) + cursor),
                             state', steps' >= 1, inPlace)
        /\ UNCHANGED <<called, firstRelax>>

AliasCheck ==
    \E inPlace \in BOOLEAN :
        /\ LPCheck
        /\ handed' = IF learningRule.updateSteps = 0 THEN handed
                     ELSE written(held(handed, Len(handed.given) - Len(patterns) + cursor),
                                  state', steps' >= 1, inPlace)
        /\ UNCHANGED <<called, firstRelax>>

NextAlias ==
    \/ HandOver
    \/ AliasRelax
    \/ AliasCompare
    \/ AliasAccuracy
    \/ AliasStability
    \/ AliasTrain
    \/ AliasPredict
    \/ LPLearn /\ UNCHANGED probes
    \/ AliasCheck
    \/ LPEpochEnd /\ UNCHANGED probes

SpecAlias == Init /\ [][NextAlias]_vars

\* --------------------------------------------- comparing, for any size
\* AbstractHopfieldNetwork.__init__ for a network of n units, with the
\* default weights np.zeros([n, n]).
ConstructedOfSize(n) ==
    /\ weights = [i \in 1..n |-> [j \in 1..n |-> 0]]
    /\ state = Ones(n)
    /\ energyFunction \in {"Bipolar", "Binary"}
    /\ updateRule \in {"Synchronous", "AsynchronousList"}
    /\ updateIndex = 0
    /\ learningRule \in {Delta(MaxEpochs), Hebbian(MaxEpochs)}
    /\ selfConnections = FALSE
    /\ lastOp = "init"
    /\ exc = "none"
    /\ returned = "None"
    /\ entryState = Ones(n)
    /\ entryIndex = 0
    /\ relaxMax = 0
    /\ steps = 0
    /\ pc = "idle"
    /\ patterns = <<>>
    /\ mappings = [given |-> FALSE, maps |-> <<>>]
    /\ resultStates = <<>>
    /\ testAccuracies = <<>>
    /\ epoch = 0
    /\ cursor = 0
    /\ learnedAllPatterns = FALSE
    /\ applied = 0
    /\ epochStates = <<>>
    /\ ruleOut = weights
    /\ recovered = 0
    /\ checkRaised = FALSE
    /\ called = [args |-> <<>>, index |-> 0]
    /\ handed = [given |-> <<>>, now |-> <<>>, shared |-> 0]
    /\ firstRelax = [seen |-> FALSE, state |-> Ones(n), index |-> 0, maxSteps |-> 0,
                     out |-> Ones(n), raised |-> FALSE, again |-> FALSE]

InitSized == \E n \in 1..N : ConstructedOfSize(n)

\* setState with a float64 array of the network's own size (self.N is the
\* length of self.state): both checks pass.
SetSized ==
    \E v \in [1..Len(state) -> {-1, 1}] :
        /\ lastOp = "init"
        /\ state' = v
        /\ lastOp' = "setState"
        /\ exc' = "none"
        /\ returned' = "None"
        /\ UNCHANGED <<weights, config, updateIndex, pc, learnLocals, recovered, probes>>
        /\ NoRelaxObs

\* compareState(v), v of the network's size
CompareWith(v) ==
    /\ lastOp \in {"init", "setState"}
    /\ returned' = IF compareState(state, v) THEN "True" ELSE "False"
    /\ lastOp' = "compareState"
    /\ exc' = "none"
    /\ called' = [args |-> <<v>>, index |-> updateIndex]
    /\ UNCHANGED <<weights, state, config, updateIndex, pc, learnLocals, recovered,
                   handed, firstRelax>>
    /\ NoRelaxObs

CompareSame == CompareWith(state)
CompareNegated == CompareWith(Neg(state))
CompareFlipped == \E i \in DOMAIN state : CompareWith(FlipAt(state, i))

NextCompare ==
    \/ SetSized
    \/ CompareSame
    \/ CompareNegated
    \/ CompareFlipped

SpecCompare == InitSized /\ [][NextCompare]_vars

\* ----------------------------------------------------- relaxing twice
\* The caller's first relax, remembered: the state, the update rule's
\* position and the ceiling it started from, and how it ended.
FirstRelax ==
    \E m \in 0..MaxStepsArg :
        /\ ~firstRelax.seen
        /\ RelaxWith(m)
        /\ firstRelax' = [seen |-> TRUE, state |-> state, index |-> updateIndex,
                          maxSteps |-> m, out |-> state',
                          raised |-> (exc' = "RelaxationException"), again |-> FALSE]
        /\ UNCHANGED <<called, handed>>

\* Between the two calls the caller sets the state, to the first call's start
\* state or to a probe vector.
SetAgain ==
    \E v \in Probes \cup {firstRelax.state} :
        /\ SetState(Array(v))
        /\ UNCHANGED probes

LaterRelax ==
    \E m \in 0..MaxStepsArg :
        /\ firstRelax.seen
        /\ RelaxWith(m)
        /\ firstRelax' = [firstRelax EXCEPT !.again = TRUE]
        /\ UNCHANGED <<called, handed>>

NextRepeat ==
    \/ SetAgain
    \/ FirstRelax
    \/ LaterRelax

SpecRepeat == Init /\ [][NextRepeat]_vars

\* ------------------------------------------------ construction with weights
\* The weights argument of the constructor: None, or an ndarray with its
\* dtype and contents.
NoWeights == [given |-> FALSE, dtype |-> "float64", data |-> <<>>]
Matrix(dtype, rows, cols, v) ==
    [given |-> TRUE, dtype |-> dtype, data |-> [i \in 1..rows |-> [j \in 1..cols |-> v]]]
SuppliedWeights ==
    {NoWeights}
        \cup {[given |-> TRUE, dtype |-> "float64", data |-> Ramp(t)] :
                 t \in {<<1, 1, 0>>, <<-1, -1, -1>>}}
        \cup {Matrix("float64", N - 1, N, 0), Matrix("float64", N, N + 1, 0),
              Matrix("float64", N + 1, N + 1, 0), Matrix("int64", N, N, 1)}

\* weights.shape == (N, N)
SquareN(W) == DOMAIN W = 1..N /\ \A i \in 1..N : DOMAIN W[i] = 1..N

\* A constructor that stores the weights it is given unchecked
constructUnchecked(w) ==
    [weights |-> IF w.given THEN w.data ELSE Zeros, exc |-> "none"]

\* Lines 53-59: self.weights after the constructor, and what it raised
construct(w) ==
    IF ~w.given THEN [weights |-> Zeros, exc |-> "none"]
    ELSE IF ~SquareN(w.data) THEN [weights |-> <<>>, exc |-> "ValueError"]
    ELSE IF w.dtype # "float64" THEN [weights |-> <<>>, exc |-> "ValueError"]
    ELSE [weights |-> w.data, exc |-> "none"]

\* The constructor called with a weights argument.  When it raises there is
\* no network: pc is "noEngine" and no operation can be called.
ConstructedWith(w) ==
    LET c == construct(w)
        n == IF c.exc = "none" THEN N ELSE 0
    IN  /\ weights = c.weights
        /\ state = Ones(n)
        /\ energyFunction \in {"Bipolar", "Binary"}
        /\ updateRule \in {"Synchronous", "AsynchronousList"}
        /\ updateIndex = 0
        /\ learningRule \in {Delta(MaxEpochs), Hebbian(MaxEpochs)}
        /\ selfConnections \in BOOLEAN
        /\ lastOp = "init"
        /\ exc = c.exc
        /\ returned = "None"
        /\ entryState = Ones(n)
        /\ entryIndex = 0
        /\ relaxMax = 0
        /\ steps = 0
        /\ pc = IF c.exc = "none" THEN "idle" ELSE "noEngine"
        /\ patterns = <<>>
        /\ mappings = [given |-> FALSE, maps |-> <<>>]
        /\ resultStates = <<>>
        /\ testAccuracies = <<>>
        /\ epoch = 0
        /\ cursor = 0
        /\ learnedAllPatterns = FALSE
        /\ applied = 0
        /\ epochStates = <<>>
        /\ ruleOut = Zeros
        /\ recovered = 0
        /\ checkRaised = FALSE
        /\ called = [args |-> <<w>>, index |-> 0]
        /\ handed = [given |-> <<>>, now |-> <<>>, shared |-> 0]
        /\ firstRelax = [seen |-> FALSE, state |-> Ones(N), index |-> 0, maxSteps |-> 0,
                         out |-> Ones(N), raised |-> FALSE, again |-> FALSE]

InitConstruct == \E w \in SuppliedWeights : ConstructedWith(w)

\* A constructed network is trained and recalled from.
SpecConstruct == InitConstruct /\ [][NextLearn]_vars

\* --------------------------------------------------- reading the energies
RECURSIVE SumTo(_, _)
SumTo(e, n) == IF n = 0 THEN 0 ELSE e[n] + SumTo(e, n - 1)

\* AbstractHopfieldNetwork.networkEnergy: -0.5 * np.sum(energies), counted in
\* halves (the sum of integers can be odd), so -1 * sum.
networkEnergy(s, W) == -1 * SumTo(unitEnergies(s, W), N)

\* unitEnergies()
UnitEnergies ==
    /\ pc = "idle"
    /\ returned' = Values(unitEnergies(state, weights), N)
    /\ lastOp' = "unitEnergies"
    /\ exc' = "none"
    /\ UNCHANGED <<weights, state, config, updateIndex, pc, learnLocals, recovered, probes>>
    /\ NoRelaxObs

\* networkEnergy()
NetworkEnergy ==
    /\ pc = "idle"
    /\ returned' = <<networkEnergy(state, weights), 2>>
    /\ lastOp' = "networkEnergy"
    /\ exc' = "none"
    /\ UNCHANGED <<weights, state, config, updateIndex, pc, learnLocals, recovered, probes>>
    /\ NoRelaxObs

NextEnergy ==
    \/ (\E a \in Arrays : SetState(a)) /\ UNCHANGED probes
    \/ UnitEnergies
    \/ NetworkEnergy

SpecEnergy == Init /\ [][NextEnergy]_vars

\* ------------------------------------------------- calling the Delta rule
\* Delta.__call__ builds its result with weightChanges + ... and
\* weights + weightChanges, new arrays each: the array passed as weights
\* holds afterwards what it held before.
deltaGivenAfter(pats, results, W) == W

\* The resultStates passed with a batch: any vector for a single pattern;
\* for two patterns each one's own pattern, its negation or a neighbour.
ResultLists(pats) ==
    IF Len(pats) = 1 THEN {<<v>> : v \in Vecs}
    ELSE LET near(q) == {q, Neg(q), FlipAt(q, 1)}
         IN  {<<Values(a, N), Values(b, N)>> : a \in near(pats[1].data), b \in near(pats[2].data)}

\* learningRule(patterns, resultStates, weights), called on its own on the
\* weights of a network as constructed
ApplyDelta ==
    \E pats \in Batches :
        \E results \in ResultLists(pats) :
            /\ pc = "idle"
            /\ lastOp = "init"
            /\ learningRule.name = "Delta"
            /\ patterns' = pats
            /\ resultStates' = results
            /\ ruleOut' = DeltaRule(pats, results, weights)
            /\ weights' = deltaGivenAfter(pats, results, weights)
            /\ lastOp' = "Delta"
            /\ exc' = "none"
            /\ returned' = "None"
            /\ UNCHANGED <<state, config, updateIndex, relaxObs, pc, mappings, testAccuracies,
                           epoch, cursor, learnedAllPatterns, applied, epochStates,
                           recovered, checkRaised, probes>>

NextDelta == ApplyDelta

\* ruleOut is what the last call returned, weights the array it was given.
SpecDelta == Init /\ [][NextDelta]_vars

\* ------------------------------------------------- calls, step by step
\* relax, entered: maxSteps is defaulted and current_step = 0 (lines 132-135)
RelaxEnter ==
    \E m \in 0..MAX_STEPS :
        /\ pc = "idle"
        /\ lastOp \in {"init", "setState"}
        /\ pc' = "relaxing"
        /\ lastOp' = "relax"
        /\ exc' = "none"
        /\ returned' = "None"
        /\ entryState' = state
        /\ entryIndex' = updateIndex
        /\ relaxMax' = m
        /\ steps' = 0
        /\ UNCHANGED <<engine, config, learnLocals, recovered, probes>>

\* Line 139: raise RelaxationException()
RelaxRaise ==
    /\ pc' = "idle"
    /\ exc' = "RelaxationException"
    /\ UNCHANGED <<state, updateIndex, steps, returned>>

\* Lines 140-141: self.state = self._updateStep(); current_step += 1
RelaxOn ==
    LET u == updateStep(state, updateIndex, weights)
    IN  /\ state' = u.state
        /\ updateIndex' = u.index
        /\ steps' = steps + 1
        /\ UNCHANGED <<pc, exc, returned>>

\* Line 144: return self.state
RelaxReturn ==
    /\ pc' = "idle"
    /\ returned' = state
    /\ UNCHANGED <<state, updateIndex, steps, exc>>

\* The loop of relax without the test of line 138
RelaxStepNoCeiling ==
    /\ pc = "relaxing"
    /\ IF relaxContinues(state, weights) THEN RelaxOn ELSE RelaxReturn
    /\ UNCHANGED <<weights, config, lastOp, entryState, entryIndex, relaxMax, learnLocals,
                   recovered, probes>>

\* One evaluation of the while test of line 137 and what follows it
RelaxStep ==
    /\ pc = "relaxing"
    /\ IF relaxContinues(state, weights)
       THEN IF ceilingReached(steps, relaxMax) THEN RelaxRaise ELSE RelaxOn
       ELSE RelaxReturn
    /\ UNCHANGED <<weights, config, lastOp, entryState, entryIndex, relaxMax, learnLocals,
                   recovered, probes>>

\* learnPatterns, from one point of its epoch loop to the next
LearnStep ==
    /\ LPPredict \/ LPLearn \/ LPMeasure \/ LPCheck \/ LPEpochEnd
    /\ UNCHANGED probes

\* The caller sets a state: any array on a fresh engine, the first trained
\* pattern once learnPatterns is over.
LiveSetState ==
    /\ pc = "idle"
    /\ \/ lastOp = "init" /\ (\E a \in Arrays : SetState(a))
       \/ lastOp = "learnPatterns" /\ SetState(patterns[1])
    /\ UNCHANGED probes

NextLive ==
    \/ LiveSetState
    \/ RelaxEnter
    \/ RelaxStep
    \/ lastOp = "init" /\ Train /\ UNCHANGED probes
    \/ LearnStep

\* What every step of a running call changes: where it stands, or one of
\* its counters.
progress == <<pc, steps, cursor, epoch, applied>>

\* learnPatterns is inside its epoch loop
Learning == pc \in {"predict", "learn", "measure", "check", "epochEnd"}

\* A call that has been entered runs on: nothing suspends it.  The second
\* condition is the weak fairness of LearnStep, written with the condition
\* under which LearnStep can take a step.
SpecLive ==
    /\ Init /\ [][NextLive]_vars
    /\ WF_progress(RelaxStep)
    /\ ([]<>(~Learning) \/ []<><<LearnStep>>_progress)

\* -------------------------------------------- batches with a bad pattern
\* Batches with one pattern of the wrong length or dtype: alone, last of
\* two, last of three, first of two.
BadBatches ==
    {<<w>> : w \in WrongArrays}
        \cup {<<Array(Half), w>> : w \in WrongArrays}
        \cup {<<Array(Ones(N)), Array(Alt), w>> : w \in WrongArrays}
        \cup {<<w, Array(Half)>> : w \in WrongArrays}

\* learnPatterns called with a bad batch: on a fresh network, after a
\* setState, or once an earlier learnPatterns is over.
TrainBad ==
    /\ lastOp \in {"init", "setState", "learnPatterns"}
    /\ \E pats \in BadBatches :
           \/ LearnPatterns(pats, FALSE, <<>>)
           \/ LearnPatterns(pats, TRUE, <<Pair(Half, Half)>>)
    /\ UNCHANGED probes

NextValidate ==
    \/ lastOp = "init" /\ (\E a \in Arrays : SetState(a)) /\ UNCHANGED probes
    \/ lastOp = "init" /\ Train /\ UNCHANGED probes
    \/ LearnStep
    \/ TrainBad

SpecValidate == Init /\ [][NextValidate]_vars

\* ------------------------------------------------ measuring with nothing
\* Mapping lists, the empty one among them
MappingListsOrNone == {<<>>} \cup {<<Pair(x, x)>> : x \in Probes}

\* Task lists with a task of no patterns: alone, after a task that has
\* patterns, and between two such tasks; and task lists without one.
TaskListsWithEmpty ==
    {<< <<>> >>}
        \cup {<< <<Array(x)>>, <<>> >> : x \in Vecs}
        \cup {<< <<Array(q[1]), Array(q[2])>>, <<>>, <<Array(q[1])>> >> : q \in Probes \X Probes}
        \cup {<< <<Array(x)>> >> : x \in Probes}

MeasureAny ==
    /\ lastOp \in {"init", "setState"}
    /\ \/ \E maps \in MappingListsOrNone :
              /\ MeasureTestAccuracy(maps)
              /\ called' = [args |-> maps, index |-> updateIndex]
       \/ \E tasks \in TaskListsWithEmpty :
              /\ MeasureTaskPatternStability(tasks)
              /\ called' = [args |-> tasks, index |-> updateIndex]
    /\ UNCHANGED <<handed, firstRelax>>

NextEmpty ==
    \/ lastOp = "init" /\ (\E a \in Arrays : SetState(a)) /\ UNCHANGED probes
    \/ MeasureAny

SpecEmpty == Init /\ [][NextEmpty]_vars

\* ------------------------------------------------------------------ claims
Stable(s, W) == ~AnyPositive(unitEnergies(s, W))
RelaxReturned == lastOp = "relax" /\ exc = "none"
RelaxRaised == lastOp = "relax" /\ exc = "RelaxationException"

\* C1: whenever relax returns normally, no unit of the engine's state reports
\* positive energy under the configured energy function, and the vector
\* returned is that state.
C1_ReturnedStateIsStable ==
    RelaxReturned => (Stable(state, weights) /\ returned = state)

\* C2: relax entered in a state where no unit reports positive energy applies
\* no update step, raises nothing and returns that state unchanged.
C2_StableStateIsReturnedAtOnce ==
    (lastOp = "relax" /\ Stable(entryState, weights))
        => (steps = 0 /\ exc = "none" /\ returned = entryState /\ state = entryState)

\* C3: one relax call applies at most maxSteps update steps before it returns
\* or raises.
C3_AtMostMaxSteps ==
    lastOp = "relax" => steps <= relaxMax

\* C9: when relax raises, the engine's state is the output of the last update
\* step applied in the call (the entry state advanced by every step the call
\* applied, never the entry state restored) and the weights are untouched.
C9_ExhaustedStateIsLastStep ==
    [][(lastOp' = "relax" /\ exc' = "RelaxationException")
         => /\ steps' >= 1
            /\ state' = IterSteps(state, updateIndex, weights, steps').state
            /\ weights' = weights]_vars

C9_Witness ==
    /\ RelaxRaised
    /\ steps >= 1
    /\ state # entryState
    /\ state = IterSteps(entryState, entryIndex, weights, steps).state

\* C10: a setState whose array has the wrong length or the wrong dtype raises
\* ValueError and leaves the engine's state as it was before the call.
C10_FailedSetStateKeepsState ==
    [][\A a \in Arrays :
          (SetState(a) /\ ~(shapeOk(a) /\ dtypeOk(a)))
             => (exc' = "ValueError" /\ state' = state)]_vars

C10_Witness ==
    /\ lastOp = "setState"
    /\ exc = "ValueError"
    /\ state # Ones(N)
    /\ Len(state) = N

Returned(op) == pc = "idle" /\ lastOp = op /\ exc = "none"
ZeroDiagonal(W) == \A i \in Idx : W[i][i] = 0
Prefix(s, n) == [i \in 1..n |-> s[i]]

\* C4: in every epoch with updateSteps > 0 the learning rule is handed one
\* resultState per pattern, in pattern order, each the state reached in that
\* epoch from its pattern (stated for what the rule reads: the first
\* len(patterns) entries of resultStates).
C4_RuleSeesThisEpochsStates ==
    (learningRule.updateSteps > 0 /\ pc \in {"measure", "check", "epochEnd"})
        => Prefix(resultStates, Len(patterns)) = epochStates

\* C5: with updateSteps > 0, learnPatterns leaves the epoch loop before
\* maxEpochs epochs only if every relax of the last epoch's convergence check
\* succeeded (and every compareState was true).
C5_EarlyStopMeansConverged ==
    (Returned("learnPatterns") /\ learningRule.updateSteps > 0
        /\ applied >= 1 /\ applied < learningRule.maxEpoches)
        => (~checkRaised /\ learnedAllPatterns)

\* C6 as stated: with updateSteps = 0 the learning rule is applied exactly
\* maxEpochs times.
C6_RunsEveryEpoch ==
    (Returned("learnPatterns") /\ learningRule.updateSteps = 0)
        => applied = learningRule.maxEpoches

\* C6 as amended: with updateSteps = 0 the convergence check relaxes nothing
\* and leaves learnedAllPatterns true, so learnPatterns stops after its first
\* epoch: the rule is applied once (not at all when maxEpochs is 0), and the
\* accuracy log, when asked for, has that many entries.
C6_RunsOneEpoch ==
    (Returned("learnPatterns") /\ learningRule.updateSteps = 0)
        => /\ applied = (IF learningRule.maxEpoches >= 1 THEN 1 ELSE 0)
           /\ ~checkRaised
           /\ mappings.given => Len(returned) = applied

C6_Witness ==
    /\ Returned("learnPatterns")
    /\ learningRule.updateSteps = 0
    /\ learningRule.maxEpoches >= 2
    /\ applied = 1
    /\ mappings.given
    /\ Len(returned) = 1

\* C7: with self-connections disabled the diagonal of the weights is zero
\* from the first learning update on: wherever the accuracy measurement or the
\* convergence check relaxes the network, and when learnPatterns has returned.
C7_DiagonalZeroAfterLearning ==
    (~selfConnections /\ applied >= 1) => ZeroDiagonal(weights)

C7_Witness ==
    /\ ~selfConnections
    /\ pc = "check"
    /\ applied >= 1
    /\ \E i \in Idx : ruleOut[i][i] # 0
    /\ ZeroDiagonal(weights)

\* C8: no RelaxationException leaves learnPatterns, measureTestAccuracy or
\* measureTaskPatternStability: a relaxation of theirs that gives up is
\* recovered and the next pattern is taken (every pattern has its prediction
\* when the rule is applied); a relax the caller runs itself, left in a state
\* the loop would still continue from, has raised.
C8_ExhaustionStaysInside ==
    /\ lastOp \in {"learnPatterns", "measureTestAccuracy", "measureTaskPatternStability"}
          => exc # "RelaxationException"
    /\ (pc = "learn" /\ learningRule.updateSteps > 0)
          => Len(epochStates) = Len(patterns)
    /\ (lastOp = "relax" /\ relaxContinues(state, weights))
          => exc = "RelaxationException"

C8_Witness ==
    /\ lastOp = "relax"
    /\ exc = "RelaxationException"
    /\ applied >= 1
    /\ Len(patterns) = 2
    /\ recovered >= 2

\* ----------------------------------------------- claims on the measurements
MeasureCalls == {"measureTestAccuracy", "measureTaskPatternStability"}
Measured(op) == lastOp = op /\ called.args # <<>>

\* C12: setState, relax (returning or exhausted), compareState,
\* measureTestAccuracy and measureTaskPatternStability leave the weight
\* matrix as it was.
C12_OnlyLearningWritesWeights ==
    [][lastOp' \in {"setState", "relax", "compareState"} \cup MeasureCalls
          => weights' = weights]_vars

\* A measurement ran on weights with self-connections, recovered an exhausted
\* relaxation and left the network in another state than the constructor's.
C12_Witness ==
    /\ lastOp \in MeasureCalls
    /\ exc = "none"
    /\ recovered >= 1
    /\ state # Ones(N)
    /\ \E i \in Idx : weights[i][i] # 0

\* The relaxation returned and the state it returned compares equal.
Recalled(r, expected) == ~r.raised /\ compareState(r.state, expected)

\* C13: measureTestAccuracy on a non-empty list returns hits/total, where
\* pair i is a hit iff setState(input), relax() under the default ceiling
\* returns and compareState(expectedOutput) holds; an exhausted relaxation is
\* a miss.
C13_AccuracyIsHitsOverTotal ==
    Measured("measureTestAccuracy") =>
        LET maps == called.args
            inputs == [i \in 1..Len(maps) |-> maps[i].input]
            hits == {i \in 1..Len(maps) :
                        Recalled(recallOf(called.index, weights, inputs, MAX_STEPS, i),
                                 maps[i].expected)}
        IN  /\ exc = "none"
            /\ returned = <<Cardinality(hits), Len(maps)>>

\* Two pairs, one a hit, the other a miss because its relaxation was exhausted.
C13_Witness ==
    /\ Measured("measureTestAccuracy")
    /\ Len(called.args) = 2
    /\ returned = <<1, 2>>
    /\ recovered = 1

\* The number of patterns in the tasks before task t.
RECURSIVE PatternsBefore(_, _)
PatternsBefore(tasks, t) ==
    IF t = 1 THEN 0 ELSE PatternsBefore(tasks, t - 1) + Len(tasks[t - 1])

\* C14: measureTaskPatternStability returns one fraction per task, in task
\* order: the patterns p of the task for which setState(p),
\* relax(learningRule.updateSteps) returns and compareState(p) holds, over the
\* patterns of the task; an exhausted relaxation is a miss.
C14_StabilityIsHitsPerTask ==
    Measured("measureTaskPatternStability") =>
        LET tasks == called.args
            inputs == Flatten(tasks)
            hits(t) == {j \in 1..Len(tasks[t]) :
                          Recalled(recallOf(called.index, weights, inputs,
                                            learningRule.updateSteps,
                                            PatternsBefore(tasks, t) + j),
                                   tasks[t][j].data)}
        IN  /\ exc = "none"
            /\ Len(returned) = Len(tasks)
            /\ \A t \in 1..Len(tasks) : returned[t] = <<Cardinality(hits(t)), Len(tasks[t])>>

\* Two tasks of one pattern each, the first recalled, the second exhausted.
C14_Witness ==
    /\ Measured("measureTaskPatternStability")
    /\ Len(called.args) = 2
    /\ returned = << <<1, 1>>, <<0, 1>> >>
    /\ recovered = 1

\* C15: tasks whose patterns are all stable under the weights (no unit of
\* the pattern has positive energy) score 1.0 each.
C15_StableTasksScoreOne ==
    (/\ Measured("measureTaskPatternStability")
     /\ \A t \in 1..Len(called.args) : \A j \in 1..Len(called.args[t]) :
            Stable(called.args[t][j].data, weights))
        => /\ exc = "none"
           /\ \A t \in 1..Len(called.args) :
                  returned[t] = <<Len(called.args[t]), Len(called.args[t])>>

\* C16: mappings of stable patterns (no unit with positive energy under the
\* weights) onto themselves score 1.0.
C16_StableMappingsScoreOne ==
    (/\ Measured("measureTestAccuracy")
     /\ \A i \in 1..Len(called.args) :
            /\ called.args[i].input.data = called.args[i].expected
            /\ Stable(called.args[i].expected, weights))
        => /\ exc = "none"
           /\ returned = <<Len(called.args), Len(called.args)>>

\* ------------------------------------------------ claims on the caller's arrays
\* C11: every array the caller passed to setState, learnPatterns or a
\* measurement holds the contents it was passed with, whatever the engine did
\* with its state since.
C11_HandedArraysKeepTheirContents == handed.now = handed.given

\* After setState(v) the engine went through further arrays and its state is
\* none of the vectors it was given.
C11_Witness ==
    /\ pc = "idle"
    /\ lastOp \in MeasureCalls \cup {"learnPatterns"}
    /\ Len(handed.given) >= 2
    /\ \A i \in 1..Len(handed.given) : state # handed.given[i]

\* ---------------------------------------------------- claims on compareState
Compared == lastOp = "compareState" /\ called.args # <<>> /\ Len(called.args[1]) = Len(state)
OneUnitFlipped(s, v) == \E i \in DOMAIN s : v = FlipAt(s, i)

\* C17 as stated, for every size N >= 1: compareState(s) and compareState(-s)
\* are true on a network in state s, and compareState of s with exactly one
\* unit flipped is false.
C17_SignSymmetricAnySize ==
    Compared =>
        LET v == called.args[1]
        IN  /\ (v = state \/ v = Neg(state)) => returned = "True"
            /\ OneUnitFlipped(state, v) => returned = "False"

\* C17 for N >= 2: compareState(s) and compareState(-s) are true on every
\* size, and compareState of s with exactly one unit flipped is false on a
\* network of two or more units.
C17_SignSymmetricFromTwoUnits ==
    Compared =>
        LET v == called.args[1]
        IN  /\ (v = state \/ v = Neg(state)) => returned = "True"
            /\ (Len(state) >= 2 /\ OneUnitFlipped(state, v)) => returned = "False"

\* A state other than the constructor's, compared with itself after one
\* unit was flipped.
C17_Witness ==
    /\ Compared
    /\ Len(state) >= 2
    /\ state # Ones(Len(state))
    /\ OneUnitFlipped(state, called.args[1])
    /\ returned = "False"

\* -------------------------------------------------- claims on zero weights
\* C18: on all-zero weights with the bipolar energy function, relax() returns
\* without raising after at most one update step, from every state and under
\* every update rule.
C18_ZeroWeightsSettleInOneStep ==
    (/\ lastOp = "relax"
     /\ relaxMax = MAX_STEPS
     /\ weights = Zeros
     /\ energyFunction = "Bipolar")
        => /\ exc = "none"
           /\ steps <= 1

\* ------------------------------------------------ claims on the accuracy log
\* What measureTestAccuracy(maps) returns on weights W with the update rule
\* at position k: the pairs whose relaxation under the default ceiling returns
\* a state that compares equal to the expected output, over all pairs.
AccuracyOn(W, k, maps) ==
    LET inputs == [i \in 1..Len(maps) |-> maps[i].input]
        hits == {i \in 1..Len(maps) :
                    Recalled(recallOf(k, W, inputs, MAX_STEPS, i), maps[i].expected)}
    IN  <<Cardinality(hits), Len(maps)>>

\* C19: learnPatterns with testPatternMappings returns the accuracy log: it
\* starts empty, gets one entry per executed epoch, appended in epoch order,
\* entry k being measureTestAccuracy on the weights after epoch k's rule
\* application and diagonal zeroing, so it has at most maxEpoches entries;
\* learnPatterns without testPatternMappings returns None.
C19_LogHasOneEntryPerEpoch ==
    [][/\ (lastOp = "learnPatterns" /\ pc = "measure" /\ exc' = "none") =>
              /\ weights = (IF selfConnections THEN ruleOut ELSE fillDiagonal(ruleOut))
              /\ testAccuracies' =
                     Append(testAccuracies, AccuracyOn(weights, updateIndex, mappings.maps))
              /\ Len(testAccuracies') = applied
       /\ (lastOp = "learnPatterns" /\ pc \notin {"measure", "idle"}) =>
              testAccuracies' = testAccuracies
       /\ (lastOp' = "learnPatterns" /\ pc = "idle") => testAccuracies' = <<>>
       /\ (lastOp' = "learnPatterns" /\ pc' = "idle" /\ exc' = "none") =>
              IF mappings'.given
              THEN /\ returned' = testAccuracies'
                   /\ Len(returned') = applied'
                   /\ Len(returned') <= learningRule.maxEpoches
              ELSE returned' = "None"
      ]_vars

\* learnPatterns ran two epochs and returned a log of two entries, the
\* second with a hit next to an exhausted relaxation.
C19_Witness ==
    /\ Returned("learnPatterns")
    /\ mappings.given
    /\ applied = 2
    /\ Len(returned) = 2
    /\ returned[2][1] >= 1
    /\ returned[2][1] < returned[2][2]

\* ------------------------------------------------- claims on repeated relax
\* A later relax started from the state and the ceiling of the first one (the
\* weights are the same throughout).
RelaxedAgain ==
    /\ firstRelax.again
    /\ lastOp = "relax"
    /\ entryState = firstRelax.state
    /\ relaxMax = firstRelax.maxSteps
SameOutcome ==
    /\ state = firstRelax.out
    /\ (exc = "RelaxationException") = firstRelax.raised

Refused(w) == w.given /\ (~SquareN(w.data) \/ w.dtype # "float64")

\* C21: a constructor given weights that are not N x N or not float64 raises
\* ValueError and leaves no network; otherwise, in every state the network
\* reaches, the weights are N x N and the state has length N.
C21_ShapesStayN ==
    IF Refused(called.args[1])
    THEN pc = "noEngine" /\ exc = "ValueError" /\ lastOp = "init"
    ELSE /\ pc # "noEngine"
         /\ SquareN(weights)
         /\ DOMAIN state = 1..N

\* A network built on supplied weights was trained, its weights changed, and
\* a relaxation then moved its state.
C21_Witness ==
    /\ called.args[1].given
    /\ Trained
    /\ applied >= 1
    /\ weights # called.args[1].data
    /\ lastOp = "relax"
    /\ steps >= 1
    /\ state # entryState

\* --------------------------------------------------- claims on the energies
SymmetricZeroDiagonal(W) ==
    \A i \in Idx : W[i][i] = 0 /\ \A j \in Idx : W[i][j] = W[j][i]

\* C22: with the bipolar energy function on symmetric weights with zero
\* diagonal, unit i's energy is -(W.s)[i] * s[i], and flipping a unit of
\* positive energy makes networkEnergy() strictly smaller.
C22_FlippingUnstableUnitLowersEnergy ==
    (/\ lastOp = "unitEnergies"
     /\ energyFunction = "Bipolar"
     /\ SymmetricZeroDiagonal(weights))
        => \A i \in Idx :
               /\ returned[i] = -1 * Dot(weights, state)[i] * state[i]
               /\ returned[i] > 0 =>
                      networkEnergy(FlipAt(state, i), weights) < networkEnergy(state, weights)

\* C23: with the binary energy function no unit energy is negative, and a
\* relax that returns leaves a state whose every unit energy is zero
\* (W.s = s).
C23_BinaryRelaxReturnsFixedPoints ==
    energyFunction = "Binary" =>
        /\ \A i \in Idx : unitEnergies(state, weights)[i] >= 0
        /\ RelaxReturned =>
               /\ \A i \in Idx : unitEnergies(state, weights)[i] = 0
               /\ Values(Dot(weights, state), N) = Values(state, N)

\* -------------------------------------------------- claims on the Delta rule
\* Twice the (i, j) entry of the sum over the batch of
\* 0.5 * outer(pattern - resultState, pattern)
RECURSIVE TwiceChange(_, _, _, _, _)
TwiceChange(pats, results, i, j, n) ==
    IF n = 0 THEN 0
    ELSE (pats[n].data[i] - results[n][i]) * pats[n].data[j]
             + TwiceChange(pats, results, i, j, n - 1)
AllResults(pats, results, f(_)) == \A n \in 1..Len(pats) : results[n] = Values(f(pats[n].data), N)
Same(v) == v

\* C24: the Delta rule returns weights + the sum over the patterns of
\* 0.5 * outer(pattern - resultState, pattern) and leaves the matrix it was
\* given as it was; the result equals the given weights when every
\* resultState is its pattern, and adds outer(pattern, pattern) per pattern
\* when every resultState is its pattern negated.
C24_DeltaAddsHalfErrorOuter ==
    [][lastOp' = "Delta" =>
          /\ weights' = weights
          /\ \A i \in Idx : \A j \in Idx :
                 2 * (ruleOut'[i][j] - weights[i][j])
                     = TwiceChange(patterns', resultStates', i, j, Len(patterns'))
          /\ AllResults(patterns', resultStates', Same) => ruleOut' = weights
          /\ AllResults(patterns', resultStates', Neg) =>
                 \A i \in Idx : \A j \in Idx :
                     ruleOut'[i][j] = weights[i][j]
                         + SumTo([n \in 1..Len(patterns') |->
                                      patterns'[n].data[i] * patterns'[n].data[j]],
                                 Len(patterns'))
      ]_vars

\* Two patterns, the first recalled negated and the second exactly: the
\* result differs from the weights given.
C24_Witness ==
    /\ lastOp = "Delta"
    /\ Len(patterns) = 2
    /\ resultStates[1] = Values(Neg(patterns[1].data), N)
    /\ resultStates[2] = Values(patterns[2].data, N)
    /\ ruleOut # weights
    /\ \E i \in Idx : weights[i][i] # 0

\* --------------------------------------------------- claims on termination
\* C25: every call ends.  A relax that was entered returns or raises after
\* at most relaxMax + 1 update steps, also when the update rule cycles; a
\* learnPatterns that was entered returns after at most maxEpoches
\* applications of the learning rule.
C25_EveryCallEnds ==
    /\ [](steps <= relaxMax + 1 /\ applied <= learningRule.maxEpoches)
    /\ (pc # "idle") ~> (pc = "idle")

\* A relax that went round a two-cycle of the Synchronous rule and was ended
\* by the ceiling.
C25_Witness ==
    /\ pc = "idle"
    /\ lastOp = "relax"
    /\ exc = "RelaxationException"
    /\ updateRule = "Synchronous"
    /\ steps >= 2
    /\ state # Synchronous(state, weights)
    /\ state = Synchronous(Synchronous(state, weights), weights)

\* C26: a learnPatterns call whose batch holds a pattern of the wrong length
\* or dtype, wherever it stands in the batch, raises ValueError at once: the
\* call is over, the learning rule was not applied, no relaxation ran, and
\* the weights, the state and the update rule's position are what they were.
C26_BadBatchRefusedBeforeFirstEpoch ==
    [][(lastOp' = "learnPatterns" /\ patterns' \in BadBatches /\ pc = "idle")
          => /\ exc' = "ValueError"
             /\ pc' = "idle"
             /\ returned' = "None"
             /\ applied' = 0
             /\ weights' = weights
             /\ state' = state
             /\ updateIndex' = updateIndex
             /\ <<entryState, entryIndex, relaxMax, steps>>
                    = <<entryState, entryIndex, relaxMax, steps>>'
             /\ ruleOut' = ruleOut]_vars

\* learnPatterns has refused a batch of three whose last pattern alone is
\* bad, on a network that an earlier learnPatterns has trained.
C26_Witness ==
    /\ lastOp = "learnPatterns"
    /\ exc = "ValueError"
    /\ pc = "idle"
    /\ Len(patterns) = 3
    /\ patternsValid(SubSeq(patterns, 1, 2))
    /\ ~patternsValid(patterns)
    /\ weights \notin InitWeights
    /\ applied = 0

\* The task list the last measureTaskPatternStability was called with has a
\* task of no patterns.
HasEmptyTask(tasks) == \E t \in 1..Len(tasks) : Len(tasks[t]) = 0

\* C27: measureTestAccuracy called with no mappings, and
\* measureTaskPatternStability called with a task of no patterns, raise
\* ZeroDivisionError, which is neither the ValueError of a bad array nor
\* RelaxationException, and return nothing, the fractions of the tasks
\* scored before the empty one included; with mappings and patterns in every
\* task they raise nothing.
C27_NothingToMeasureDividesByZero ==
    /\ lastOp = "measureTestAccuracy"
           => IF Len(called.args) = 0
              THEN exc = "ZeroDivisionError" /\ returned = "None"
              ELSE exc = "none"
    /\ lastOp = "measureTaskPatternStability"
           => IF HasEmptyTask(called.args)
              THEN exc = "ZeroDivisionError" /\ returned = "None"
              ELSE exc = "none" /\ Len(returned) = Len(called.args)
    /\ "ZeroDivisionError" \notin {"ValueError", "RelaxationException"}

\* measureTaskPatternStability has scored a task of one pattern, met an
\* empty task after it, and raised.
C27_Witness ==
    /\ lastOp = "measureTaskPatternStability"
    /\ Len(called.args) = 2
    /\ Len(called.args[1]) = 1
    /\ Len(called.args[2]) = 0
    /\ state = called.args[1][1].data
    /\ state # Ones(N)
    /\ exc = "ZeroDivisionError"

====
